---- MODULE Spec2Model ----
(***************************************************************************)
(* Model of fizz/protocol/Certificate.cpp: CertUtils::prepareSignData,     *)
(* getCertMessage, makePeerCert and both makeSelfCert overloads.           *)
(*                                                                         *)
(* Every operation is a pure construction from its arguments, so the       *)
(* state is the last call made (call) and what it returned or threw (ret). *)
(* Byte buffers (folly::IOBuf, ByteRange, StringPiece) are sequences of    *)
(* numbers 0..255.  OpenSSL objects (X509, EVP_PKEY) are records; the DER  *)
(* codec (i2d_X509 / d2i_X509) is a small tag-length-value codec.          *)
(***************************************************************************)
EXTENDS Integers, Sequences, FiniteSets

VARIABLES call, ret

vars == <<call, ret>>

(***************************************************************************)
(* Bounds of the model.                                                    *)
(***************************************************************************)
\* longest enumerated toBeSigned range (32-byte digests are added apart)
MaxTbsLen == 2
\* longest certificate chain handed to getCertMessage / makeSelfCert
MaxChain == 2
\* most bytes following a certificate in a makePeerCert buffer
MaxTrail == 2

(***************************************************************************)
(* Bytes and buffers.                                                      *)
(***************************************************************************)
\* byte values the enumerated buffers are built from
SampleBytes == {0, 32, 255}

\* content of memory that IOBuf::create allocated and nothing wrote yet
Uninit == -1

RECURSIVE SeqsUpTo(_, _)
SeqsUpTo(S, n) ==
  IF n = 0 THEN {<<>>}
  ELSE LET shorter == SeqsUpTo(S, n - 1)
       IN shorter \cup {Append(s, x) : s \in {t \in shorter : Len(t) = n - 1}, x \in S}

\* folly::IOBuf::create(n) followed by append(n): n bytes, none written
IOBufCreate(n) == [i \in 1..n |-> Uninit]

\* memset(buf + offset, val, n)
Memset(buf, offset, val, n) ==
  [i \in 1..Len(buf) |-> IF i > offset /\ i <= offset + n THEN val ELSE buf[i]]

\* memcpy(buf + offset, src, src.size())
Memcpy(buf, offset, src) ==
  [i \in 1..Len(buf) |->
     IF i > offset /\ i <= offset + Len(src) THEN src[i - offset] ELSE buf[i]]

(***************************************************************************)
(* CertUtils::prepareSignData                                              *)
(***************************************************************************)
CertificateVerifyContext == {"Server", "Client"}

\* "TLS 1.3, server CertificateVerify"
kServerLabel ==
  <<84, 76, 83, 32, 49, 46, 51, 44, 32, 115, 101, 114, 118, 101, 114, 32,
    67, 101, 114, 116, 105, 102, 105, 99, 97, 116, 101,
    86, 101, 114, 105, 102, 121>>

\* "TLS 1.3, client CertificateVerify"
kClientLabel ==
  <<84, 76, 83, 32, 49, 46, 51, 44, 32, 99, 108, 105, 101, 110, 116, 32,
    67, 101, 114, 116, 105, 102, 105, 99, 97, 116, 101,
    86, 101, 114, 105, 102, 121>>

kSigPrefixLen_short == 64 - 1
kSigPrefixLen == 64

kSigPrefix_zero == 32 - 32
kSigPrefix == 32

selectLabel_sameForBoth(context) == kServerLabel
selectLabel(context) ==
  IF context = "Server" THEN kServerLabel ELSE kClientLabel

prepareSignData(context, toBeSigned) ==
  LET label      == selectLabel(context)
      sigDataLen == kSigPrefixLen + Len(label) + 1 + Len(toBeSigned)
      buf0       == IOBufCreate(sigDataLen)
      buf1       == Memset(buf0, 0, kSigPrefix, kSigPrefixLen)
      offset1    == 0 + kSigPrefixLen
      buf2       == Memcpy(buf1, offset1, label)
      offset2    == offset1 + Len(label)
      buf3       == Memset(buf2, offset2, 0, 1)
      offset3    == offset2 + 1
  IN Memcpy(buf3, offset3, toBeSigned)

(***************************************************************************)
(* OpenSSL objects.                                                        *)
(***************************************************************************)
EVP_PKEY_RSA == 6
EVP_PKEY_EC == 408
NID_X9_62_prime256v1 == 415
NID_secp384r1 == 715
NID_secp521r1 == 716

\* key algorithms the code does not list: Ed25519 (1087), DSA (116)
UnlistedAlgs == {1087, 116}
\* a named curve the code does not list: P-192 (409)
UnlistedCurves == {409}

\* EVP_PKEY: alg is EVP_PKEY_id, curve the EC group's curve name (0: the group
\* is unnamed, or the key is no EC key), kid tells keys of one kind apart.
\* alg = 0 is the null EVP_PKEY pointer.
NullKey == [alg |-> 0, curve |-> 0, kid |-> 0]

PubKeys ==
  {[alg |-> EVP_PKEY_RSA, curve |-> 0, kid |-> 1],
   [alg |-> EVP_PKEY_RSA, curve |-> 0, kid |-> 2],
   [alg |-> EVP_PKEY_EC, curve |-> NID_X9_62_prime256v1, kid |-> 1],
   [alg |-> EVP_PKEY_EC, curve |-> NID_secp384r1, kid |-> 1],
   [alg |-> EVP_PKEY_EC, curve |-> NID_secp521r1, kid |-> 1],
   [alg |-> EVP_PKEY_EC, curve |-> 0, kid |-> 1]}
  \cup {[alg |-> EVP_PKEY_EC, curve |-> c, kid |-> 1] : c \in UnlistedCurves}
  \cup {[alg |-> a, curve |-> 0, kid |-> 1] : a \in UnlistedAlgs}

\* private keys handed to makeSelfCert: an RSA key, a P-256 key, an Ed25519 key
PrivKeys ==
  {[alg |-> EVP_PKEY_RSA, curve |-> 0, kid |-> 1],
   [alg |-> EVP_PKEY_EC, curve |-> NID_X9_62_prime256v1, kid |-> 1],
   [alg |-> 1087, curve |-> 0, kid |-> 2]}

\* X509: subject names the certificate, spki is the public key it carries
\* (NullKey: X509_get_pubkey cannot extract one), enc says how i2d_X509 fares
\* on the object: "ok", "len" (the length pass fails), "write" (the writing
\* pass fails).  subject = 0 is the null X509 pointer.
NullCert == [subject |-> 0, spki |-> NullKey, enc |-> "ok"]

Certs ==
  {[subject |-> 1, spki |-> k, enc |-> "ok"] : k \in PubKeys \cup {NullKey}}
  \cup {[subject |-> 2, spki |-> [alg |-> EVP_PKEY_RSA, curve |-> 0, kid |-> 1],
         enc |-> e] : e \in {"ok", "len", "write"}}

Chains == SeqsUpTo(Certs, MaxChain)

\* X509_get_pubkey(cert): the key, or null
X509_get_pubkey(cert) == cert.spki

\* EVP_PKEY_id(key)
EVP_PKEY_id(key) == key.alg

getCurveName(key) ==
  LET ecKey == IF key.alg = EVP_PKEY_EC THEN key ELSE NullKey
  IN IF ecKey # NullKey THEN ecKey.curve ELSE 0

(***************************************************************************)
(* The DER codec of the underlying library, as the code calls it.          *)
(* A certificate is tag 48 (SEQUENCE), a length byte, and the content      *)
(* subject, spki.alg (two bytes), spki.curve (two bytes), spki.kid.        *)
(***************************************************************************)
DerContent(cert) ==
  <<cert.subject,
    cert.spki.alg \div 256, cert.spki.alg % 256,
    cert.spki.curve \div 256, cert.spki.curve % 256,
    cert.spki.kid>>

DerBytes(cert) == <<48, Len(DerContent(cert))>> \o DerContent(cert)

\* i2d_X509(cert, nullptr): the encoded length, negative on failure
i2d_X509_length(cert) ==
  IF cert.enc = "len" THEN -1 ELSE Len(DerBytes(cert))

\* i2d_X509(cert, &dataPtr): the bytes written and the length, negative on
\* failure
i2d_X509_write(cert) ==
  IF cert.enc = "ok"
  THEN [len |-> Len(DerBytes(cert)), written |-> DerBytes(cert)]
  ELSE [len |-> -1, written |-> <<>>]

\* d2i_X509(nullptr, &begin, size): the parsed certificate (NullCert when the
\* bytes are no certificate) and how far begin moved
d2i_X509(range) ==
  LET n == Len(range)
      wellFormed ==
        /\ n >= 2
        /\ range[1] = 48
        /\ range[2] = 6
        /\ n >= 2 + range[2]
        /\ \A i \in 3..8 : range[i] \in 0..255
        /\ range[3] >= 1
  IN IF wellFormed
     THEN [cert |-> [subject |-> range[3],
                     spki |-> [alg |-> range[4] * 256 + range[5],
                               curve |-> range[6] * 256 + range[7],
                               kid |-> range[8]],
                     enc |-> "ok"],
           consumed |-> 2 + range[2]]
     ELSE [cert |-> NullCert, consumed |-> 0]

(***************************************************************************)
(* What a call returns or throws.                                          *)
(***************************************************************************)
NoMsg == [certificate_request_context |-> <<>>, certificate_list |-> <<>>]

\* kind: "none", "Buf", "CertificateMsg", "PeerCert", "SelfCert", "throw"
\* (std::runtime_error, what is its message) or "crash"
NoRet ==
  [kind |-> "none", what |-> "", bytes |-> <<>>, msg |-> NoMsg, tag |-> "",
   cert |-> NullCert, certs |-> <<>>, key |-> NullKey, diag |-> FALSE,
   ub |-> FALSE]

Throw(what) == [NoRet EXCEPT !.kind = "throw", !.what = what]

KeyType == {"RSA", "P256", "P384", "P521"}

(***************************************************************************)
(* CertUtils::getCertMessage                                               *)
(***************************************************************************)
IsEncodeError_never(len) == FALSE
IsEncodeError(len) == len < 0

appended_short(written, len) == SubSeq(written, 1, len - 1)
\* entry.cert_data->append(len): the first len bytes written are the data
appended(written, len) == SubSeq(written, 1, len)

push_front(entries, entry) == <<entry>> \o entries
\* entries.push_back(std::move(entry))
push_back(entries, entry) == Append(entries, entry)

\* the body of the loop for one certificate: the entry, or what is thrown
certEntry(cert) ==
  LET len1 == i2d_X509_length(cert)
  IN IF IsEncodeError(len1)
     THEN [thrown |-> "Error computing length", entry |-> <<>>]
     ELSE LET w == i2d_X509_write(cert)
          IN IF IsEncodeError(w.len)
             THEN [thrown |-> "Error converting cert to DER", entry |-> <<>>]
             ELSE [thrown |-> "",
                   entry |-> [cert_data |-> appended(w.written, w.len),
                              extensions |-> <<>>]]

RECURSIVE certEntries(_, _)
\* the loop over certs: the entries, or what the first failing one throws
certEntries(certs, entries) ==
  IF certs = <<>>
  THEN [thrown |-> "", entries |-> entries]
  ELSE LET e == certEntry(Head(certs))
       IN IF e.thrown # ""
          THEN [thrown |-> e.thrown, entries |-> <<>>]
          ELSE certEntries(Tail(certs), push_back(entries, e.entry))

getCertMessage(certs, certificateRequestContext) ==
  LET r == certEntries(certs, <<>>)
  IN IF r.thrown # ""
     THEN Throw(r.thrown)
     ELSE [NoRet EXCEPT
             !.kind = "CertificateMsg",
             !.msg = [certificate_request_context |-> certificateRequestContext,
                      certificate_list |-> r.entries]]

(***************************************************************************)
(* CertUtils::makePeerCert                                                 *)
(***************************************************************************)
peerKeyType_curvesShifted(pubKey) ==
  IF EVP_PKEY_id(pubKey) = EVP_PKEY_RSA THEN "RSA"
  ELSE IF EVP_PKEY_id(pubKey) = EVP_PKEY_EC
  THEN CASE getCurveName(pubKey) = NID_X9_62_prime256v1 -> "P256"
         [] getCurveName(pubKey) = NID_secp384r1 -> "P521"
         [] getCurveName(pubKey) = NID_secp521r1 -> "P384"
         [] OTHER -> ""
  ELSE ""
\* the if / else if / switch over the public key: the KeyType of the
\* PeerCertImpl made, "" when control reaches the final throw
peerKeyType(pubKey) ==
  IF EVP_PKEY_id(pubKey) = EVP_PKEY_RSA THEN "RSA"
  ELSE IF EVP_PKEY_id(pubKey) = EVP_PKEY_EC
  THEN CASE getCurveName(pubKey) = NID_X9_62_prime256v1 -> "P256"
         [] getCurveName(pubKey) = NID_secp384r1 -> "P384"
         [] getCurveName(pubKey) = NID_secp521r1 -> "P521"
         [] OTHER -> ""
  ELSE ""

\* from the parsed certificate on: the trailing-bytes diagnostic, the public
\* key, the PeerCertImpl
peerCertOf(cert, didNotReadToEnd) ==
  LET pubKey == X509_get_pubkey(cert)
  IN IF pubKey = NullKey
     THEN [Throw("couldn't get pubkey from peer cert")
             EXCEPT !.diag = didNotReadToEnd]
     ELSE IF peerKeyType(pubKey) # ""
     THEN [NoRet EXCEPT !.kind = "PeerCert", !.tag = peerKeyType(pubKey),
                        !.cert = cert, !.diag = didNotReadToEnd]
     ELSE [Throw("unknown peer cert type") EXCEPT !.diag = didNotReadToEnd]

makePeerCert_rejectsTrailing(certData) ==
  IF certData = <<>>
  THEN Throw("empty peer cert")
  ELSE LET parsed == d2i_X509(certData)
       IN IF parsed.cert = NullCert \/ parsed.consumed # Len(certData)
          THEN Throw("could not read cert")
          ELSE peerCertOf(parsed.cert, FALSE)
makePeerCert(certData) ==
  IF certData = <<>>
  THEN Throw("empty peer cert")
  ELSE LET range  == certData
           parsed == d2i_X509(range)
       IN IF parsed.cert = NullCert
          THEN Throw("could not read cert")
          ELSE peerCertOf(parsed.cert, parsed.consumed # Len(range))

(***************************************************************************)
(* CertUtils::makeSelfCert(std::vector<X509UniquePtr>, EvpPkeyUniquePtr)   *)
(***************************************************************************)
\* certs.front(): the first element.  On an empty vector this is undefined
\* behaviour: the process may crash, or the read yields a null pointer or
\* whatever certificate object the storage happens to hold.
front(certs) ==
  IF certs # <<>>
  THEN {[ub |-> FALSE, crash |-> FALSE, value |-> certs[1]]}
  ELSE {[ub |-> TRUE, crash |-> TRUE, value |-> NullCert]}
       \cup {[ub |-> TRUE, crash |-> FALSE, value |-> c] :
               c \in Certs \cup {NullCert}}

\* from the leaf's public key on: the SelfCertImpl, which takes key and certs
selfCertOf(pubKey, key, certs) ==
  IF pubKey = NullKey
  THEN Throw("Failed to read public key")
  ELSE IF EVP_PKEY_id(pubKey) = EVP_PKEY_RSA
  THEN [NoRet EXCEPT !.kind = "SelfCert", !.tag = "RSA",
                     !.key = key, !.certs = certs]
  ELSE IF EVP_PKEY_id(pubKey) = EVP_PKEY_EC
          /\ getCurveName(pubKey) = NID_X9_62_prime256v1
  THEN [NoRet EXCEPT !.kind = "SelfCert", !.tag = "P256",
                     !.key = key, !.certs = certs]
  ELSE IF EVP_PKEY_id(pubKey) = EVP_PKEY_EC
          /\ getCurveName(pubKey) = NID_secp384r1
  THEN [NoRet EXCEPT !.kind = "SelfCert", !.tag = "P384",
                     !.key = key, !.certs = certs]
  ELSE IF EVP_PKEY_id(pubKey) = EVP_PKEY_EC
          /\ getCurveName(pubKey) = NID_secp521r1
  THEN [NoRet EXCEPT !.kind = "SelfCert", !.tag = "P521",
                     !.key = key, !.certs = certs]
  ELSE Throw("unknown self cert type")

makeSelfCert_classifiesPrivateKey(certs, key) ==
  {IF f.crash
   THEN [NoRet EXCEPT !.kind = "crash", !.ub = TRUE]
   ELSE [selfCertOf(IF X509_get_pubkey(f.value) = NullKey THEN NullKey ELSE key,
                    key, certs)
           EXCEPT !.ub = f.ub] : f \in front(certs)}
\* the set of outcomes the call can have: one, unless certs is empty
makeSelfCert(certs, key) ==
  {IF f.crash
   THEN [NoRet EXCEPT !.kind = "crash", !.ub = TRUE]
   ELSE [selfCertOf(X509_get_pubkey(f.value), key, certs)
           EXCEPT !.ub = f.ub] : f \in front(certs)}

(***************************************************************************)
(* CertUtils::makeSelfCert(std::string certData, std::string keyData)      *)
(* readCerts is what OpenSSLCertUtils::readCertsFromBuffer(certData)       *)
(* returns, bioOk whether BIO_new_mem_buf returns a BIO, readKey what      *)
(* PEM_read_bio_PrivateKey returns (NullKey: null).                        *)
(***************************************************************************)
makeSelfCertFromData(readCerts, bioOk, readKey) ==
  IF readCerts = <<>>
  THEN {Throw("no certificates read")}
  ELSE IF ~bioOk
  THEN {Throw("failed to create BIO")}
  ELSE IF readKey = NullKey
  THEN {Throw("Failed to read key")}
  ELSE makeSelfCert(readCerts, readKey)

(***************************************************************************)
(* The caller: any operation, with any arguments, one call at a time: the  *)
(* calls are synchronous and share no state, so a call starts from the     *)
(* idle caller and Return drops what it gave back.                         *)
(***************************************************************************)
\* 32-byte transcript digests
Digests == {[i \in 1..32 |-> (a * i + b) % 256] : a \in {0, 7}, b \in {0, 32, 200}}

ToBeSigned == SeqsUpTo(SampleBytes, MaxTbsLen) \cup Digests

RequestContexts == {<<>>, <<7>>, <<0, 255>>}

Trails == SeqsUpTo(SampleBytes, MaxTrail)

\* buffers handed to makePeerCert: empty, no certificate at all, a truncated
\* certificate, and a certificate followed by 0..MaxTrail bytes
PeerBuffers ==
  {<<>>, <<0>>, <<48>>, <<48, 6>>, <<49, 6, 1, 0, 6, 0, 0, 1>>,
   <<48, 5, 1, 0, 6, 0, 0>>, <<48, 6, 0, 0, 6, 0, 0, 1>>}
  \cup {SubSeq(DerBytes(c), 1, n) : c \in Certs, n \in 3..7}
  \cup {DerBytes(c) \o t : c \in Certs, t \in Trails}

NoCall ==
  [op |-> "none", context |-> "", toBeSigned |-> <<>>, certs |-> <<>>,
   requestContext |-> <<>>, certData |-> <<>>, key |-> NullKey, bioOk |-> TRUE]

Init ==
  /\ call = NoCall
  /\ ret = NoRet

PrepareSignData ==
  /\ call.op = "none"
  /\ \E context \in CertificateVerifyContext, toBeSigned \in ToBeSigned :
       /\ call' = [NoCall EXCEPT !.op = "prepareSignData", !.context = context,
                                 !.toBeSigned = toBeSigned]
       /\ ret' = [NoRet EXCEPT !.kind = "Buf",
                               !.bytes = prepareSignData(context, toBeSigned)]

GetCertMessage ==
  /\ call.op = "none"
  /\ \E certs \in Chains, requestContext \in RequestContexts :
       /\ call' = [NoCall EXCEPT !.op = "getCertMessage", !.certs = certs,
                                 !.requestContext = requestContext]
       /\ ret' = getCertMessage(certs, requestContext)

MakePeerCert ==
  /\ call.op = "none"
  /\ \E certData \in PeerBuffers :
       /\ call' = [NoCall EXCEPT !.op = "makePeerCert", !.certData = certData]
       /\ ret' = makePeerCert(certData)

MakeSelfCert ==
  /\ call.op = "none"
  /\ \E certs \in Chains, key \in PrivKeys :
       /\ call' = [NoCall EXCEPT !.op = "makeSelfCert", !.certs = certs,
                                 !.key = key]
       /\ ret' \in makeSelfCert(certs, key)

MakeSelfCertFromData ==
  /\ call.op = "none"
  /\ \E readCerts \in Chains, bioOk \in BOOLEAN, readKey \in PrivKeys \cup {NullKey} :
       /\ call' = [NoCall EXCEPT !.op = "makeSelfCertFromData", !.certs = readCerts,
                                 !.bioOk = bioOk, !.key = readKey]
       /\ ret' \in makeSelfCertFromData(readCerts, bioOk, readKey)

Return ==
  /\ call.op # "none"
  /\ call' = NoCall
  /\ ret' = NoRet

Next ==
  \/ PrepareSignData
  \/ GetCertMessage
  \/ MakePeerCert
  \/ MakeSelfCert
  \/ MakeSelfCertFromData
  \/ Return

Spec == Init /\ [][Next]_vars

(***************************************************************************)
(* The properties.                                                         *)
(***************************************************************************)
\* the error kinds of the specification, by the message the code throws
ErrorKind(what) ==
  CASE what = "empty peer cert" -> "EmptyInput"
    [] what = "could not read cert" -> "DecodeError"
    [] what = "no certificates read" -> "DecodeError"
    [] what = "Failed to read key" -> "KeyDecodeError"
    [] what = "couldn't get pubkey from peer cert" -> "MissingPublicKey"
    [] what = "Failed to read public key" -> "MissingPublicKey"
    [] what = "unknown peer cert type" -> "UnsupportedKeyType"
    [] what = "unknown self cert type" -> "UnsupportedKeyType"
    [] what = "Error computing length" -> "EncodingError"
    [] what = "Error converting cert to DER" -> "EncodingError"
    [] OTHER -> "other"

\* the key-type table of the specification: RSA, the curves P-256, P-384 and
\* P-521, and "" for every other key
TagOfKey(k) ==
  IF k.alg = 6 THEN "RSA"
  ELSE IF k.alg = 408 /\ k.curve = 415 THEN "P256"
  ELSE IF k.alg = 408 /\ k.curve = 715 THEN "P384"
  ELSE IF k.alg = 408 /\ k.curve = 716 THEN "P521"
  ELSE ""

\* both passes of the encoder succeed on the certificate
Encodes(cert) == i2d_X509_length(cert) >= 0 /\ i2d_X509_write(cert).len >= 0

LabelOf(context) == IF context = "Server" THEN kServerLabel ELSE kClientLabel

Pad64 == [i \in 1..64 |-> 32]

\* C1: for every toBeSigned and both contexts the buffer prepareSignData
\* returns has length 64 + label length + 1 + toBeSigned length, 64 bytes 0x20
\* first, then the label of the side, then one 0x00, then toBeSigned.
C1_SignDataLayout ==
  call.op = "prepareSignData" =>
    LET out   == ret.bytes
        label == LabelOf(call.context)
        tbs   == call.toBeSigned
    IN /\ ret.kind = "Buf"
       /\ Len(out) = 64 + Len(label) + 1 + Len(tbs)
       /\ \A i \in 1..64 : out[i] = 32
       /\ \A i \in 1..Len(label) : out[64 + i] = label[i]
       /\ out[64 + Len(label) + 1] = 0
       /\ \A i \in 1..Len(tbs) : out[64 + Len(label) + 1 + i] = tbs[i]

C1_Witness ==
  /\ call.op = "prepareSignData"
  /\ call.context = "Client"
  /\ call.toBeSigned = <<>>
  /\ Len(ret.bytes) = 98
  /\ ret.bytes[98] = 0

\* C2 as stated: for a 32-byte digest D and the Server context the buffer is
\* 0x20 x 64, the server label, 0x00, D, and it is 131 bytes long, the label
\* being 34 of them.
C2_Original ==
  (call.op = "prepareSignData" /\ call.context = "Server"
     /\ Len(call.toBeSigned) = 32) =>
    /\ ret.bytes = Pad64 \o kServerLabel \o <<0>> \o call.toBeSigned
    /\ Len(kServerLabel) = 34
    /\ Len(ret.bytes) = 131

\* C2, amended: for a 32-byte digest D and the Server context the buffer is
\* 0x20 x 64, the server label, 0x00, D, and it is 64+33+1+32 = 130 bytes long,
\* the label being 33 of them.
C2_ServerDigest ==
  (call.op = "prepareSignData" /\ call.context = "Server"
     /\ Len(call.toBeSigned) = 32) =>
    /\ ret.bytes = Pad64 \o kServerLabel \o <<0>> \o call.toBeSigned
    /\ Len(kServerLabel) = 33
    /\ Len(ret.bytes) = 130

C2_Witness ==
  /\ call.op = "prepareSignData"
  /\ call.context = "Server"
  /\ Len(call.toBeSigned) = 32
  /\ call.toBeSigned[32] = 224
  /\ Len(ret.bytes) = 130

OtherContext(context) == IF context = "Server" THEN "Client" ELSE "Server"

\* C3: the buffer returned for one side is never the buffer the other side
\* gets, for the same toBeSigned or any other of the same length: the two
\* differ at some index of the label region [64, 64 + label length).
C3_SidesDiffer ==
  call.op = "prepareSignData" =>
    \A t2 \in ToBeSigned :
      Len(t2) = Len(call.toBeSigned) =>
        LET other == prepareSignData(OtherContext(call.context), t2)
        IN /\ ret.bytes # other
           /\ \E i \in 1..Len(LabelOf(call.context)) :
                ret.bytes[64 + i] # other[64 + i]

C3_Witness ==
  /\ call.op = "prepareSignData"
  /\ call.context = "Server"
  /\ call.toBeSigned = <<0, 32>>
  /\ ret.bytes[74] = 115
  /\ prepareSignData("Client", <<255, 255>>)[74] = 99

\* C4: when every certificate of the input encodes, getCertMessage returns a
\* message with one entry per certificate, in input order, entry i holding the
\* DER encoding of certificate i and no extensions, and with the request
\* context it was given.
C4_MessagePreservesChain ==
  (call.op = "getCertMessage" /\ \A i \in 1..Len(call.certs) : Encodes(call.certs[i])) =>
    /\ ret.kind = "CertificateMsg"
    /\ Len(ret.msg.certificate_list) = Len(call.certs)
    /\ \A i \in 1..Len(call.certs) :
         /\ ret.msg.certificate_list[i].cert_data = DerBytes(call.certs[i])
         /\ d2i_X509(ret.msg.certificate_list[i].cert_data).cert = call.certs[i]
         /\ ret.msg.certificate_list[i].extensions = <<>>
    /\ ret.msg.certificate_request_context = call.requestContext

C4_Witness ==
  /\ call.op = "getCertMessage"
  /\ Len(call.certs) = 2
  /\ call.certs[1].subject = 2 /\ call.certs[1].enc = "ok"
  /\ call.certs[2].subject = 1 /\ call.certs[2].spki.alg = 408
  /\ call.requestContext = <<0, 255>>
  /\ ret.kind = "CertificateMsg"
  /\ Len(ret.msg.certificate_list) = 2

\* C5: makePeerCert always ends in exactly one outcome, decided in this order:
\* empty buffer, EmptyInput; bytes that are no certificate, DecodeError; no
\* public key, MissingPublicKey; RSA, P-256, P-384, P-521: a PeerCert of that
\* tag owning the parsed certificate; any other key, UnsupportedKeyType.
C5_PeerCertOutcome ==
  call.op = "makePeerCert" =>
    LET parsed == d2i_X509(call.certData)
        k      == parsed.cert.spki
    IN /\ ret.kind \in {"PeerCert", "throw"}
       /\ ret.kind = "PeerCert" => ret.tag \in KeyType
       /\ IF call.certData = <<>>
          THEN ret.kind = "throw" /\ ErrorKind(ret.what) = "EmptyInput"
          ELSE IF parsed.cert = NullCert
          THEN ret.kind = "throw" /\ ErrorKind(ret.what) = "DecodeError"
          ELSE IF k = NullKey
          THEN ret.kind = "throw" /\ ErrorKind(ret.what) = "MissingPublicKey"
          ELSE IF TagOfKey(k) # ""
          THEN ret.kind = "PeerCert" /\ ret.tag = TagOfKey(k)
               /\ ret.cert = parsed.cert
          ELSE ret.kind = "throw" /\ ErrorKind(ret.what) = "UnsupportedKeyType"

C5_Witness ==
  /\ call.op = "makePeerCert"
  /\ call.certData = <<48, 6, 1, 1, 152, 2, 203, 1>>
  /\ ret.kind = "PeerCert"
  /\ ret.tag = "P384"

\* C6: makeSelfCert(certs, key) with an empty certs is rejected with an error,
\* and the first certificate of the empty sequence is never read.
C6_EmptyChainRejected ==
  (call.op = "makeSelfCert" /\ call.certs = <<>>) =>
    /\ ret.kind = "throw"
    /\ ~ret.ub

\* C7: getCertMessage fails as a whole: if any certificate of the input fails
\* to encode, in either pass, the call throws an EncodingError and returns no
\* message; a message returned has an entry for every certificate.
C7_MessageAtomicFailure ==
  call.op = "getCertMessage" =>
    /\ ret.kind \in {"CertificateMsg", "throw"}
    /\ (\E k \in 1..Len(call.certs) : ~Encodes(call.certs[k])) =>
         /\ ret.kind = "throw"
         /\ ErrorKind(ret.what) = "EncodingError"
         /\ ret.msg = NoMsg
    /\ ret.kind = "CertificateMsg" =>
         /\ \A k \in 1..Len(call.certs) : Encodes(call.certs[k])
         /\ Len(ret.msg.certificate_list) = Len(call.certs)
         /\ \A k \in 1..Len(call.certs) :
              ret.msg.certificate_list[k].cert_data # <<>>

C7_Witness ==
  /\ call.op = "getCertMessage"
  /\ Len(call.certs) = 2
  /\ Encodes(call.certs[1])
  /\ call.certs[2].enc = "write"
  /\ ret.kind = "throw"
  /\ ret.what = "Error converting cert to DER"

\* C8: for one certificate that encodes and carries an RSA, P-256, P-384 or
\* P-521 key, makePeerCert on the entry getCertMessage made of it returns a
\* PeerCert holding that certificate under the tag of its key; the entry is
\* not empty and is read to its end.
C8_RoundTrip ==
  (/\ call.op = "getCertMessage"
   /\ Len(call.certs) = 1
   /\ Encodes(call.certs[1])
   /\ TagOfKey(call.certs[1].spki) # "") =>
    /\ ret.kind = "CertificateMsg"
    /\ Len(ret.msg.certificate_list) = 1
    /\ ret.msg.certificate_list[1].cert_data # <<>>
    /\ LET peer == makePeerCert(ret.msg.certificate_list[1].cert_data)
       IN /\ peer.kind = "PeerCert"
          /\ peer.cert = call.certs[1]
          /\ peer.tag = TagOfKey(call.certs[1].spki)
          /\ ~peer.diag

C8_Witness ==
  /\ call.op = "getCertMessage"
  /\ Len(call.certs) = 1
  /\ call.certs[1].spki.curve = 716
  /\ ret.kind = "CertificateMsg"
  /\ makePeerCert(ret.msg.certificate_list[1].cert_data).tag = "P521"

\* C9: bytes after one well-formed certificate do not change what makePeerCert
\* does with it: the outcome is the outcome for the certificate's bytes alone,
\* a PeerCert or MissingPublicKey or UnsupportedKeyType, and only the
\* diagnostic differs.
C9_TrailingBytesIgnored ==
  call.op = "makePeerCert" =>
    \A c \in Certs, t \in Trails :
      (t # <<>> /\ call.certData = DerBytes(c) \o t) =>
        LET alone == makePeerCert(DerBytes(c))
        IN /\ ~alone.diag
           /\ ret = [alone EXCEPT !.diag = TRUE]
           /\ \/ ret.kind = "PeerCert"
              \/ /\ ret.kind = "throw"
                 /\ ErrorKind(ret.what) \in {"MissingPublicKey", "UnsupportedKeyType"}

C9_Witness ==
  /\ call.op = "makePeerCert"
  /\ Len(call.certData) = 10
  /\ call.certData[9] = 255
  /\ ret.kind = "PeerCert"
  /\ ret.tag = "P256"
  /\ ret.diag

\* C10: for a non-empty certs the outcome of makeSelfCert(certs, key) is
\* decided by the public key of the first certificate alone: none,
\* MissingPublicKey; RSA, P-256, P-384, P-521: a SelfCert of that tag, the tag
\* makePeerCert gives that certificate, owning key and certs as given; any
\* other key, UnsupportedKeyType.  Neither key nor the other certificates
\* change it.
C10_SelfCertByLeafKey ==
  (call.op = "makeSelfCert" /\ call.certs # <<>>) =>
    LET leaf == call.certs[1]
        k    == leaf.spki
    IN /\ ~ret.ub
       /\ IF k = NullKey
          THEN ret.kind = "throw" /\ ErrorKind(ret.what) = "MissingPublicKey"
          ELSE IF TagOfKey(k) # ""
          THEN /\ ret.kind = "SelfCert"
               /\ ret.tag = TagOfKey(k)
               /\ ret.key = call.key
               /\ ret.certs = call.certs
               /\ Encodes(leaf) => ret.tag = makePeerCert(DerBytes(leaf)).tag
          ELSE ret.kind = "throw" /\ ErrorKind(ret.what) = "UnsupportedKeyType"

C10_Witness ==
  /\ call.op = "makeSelfCert"
  /\ Len(call.certs) = 2
  /\ call.certs[1].spki.alg = 6
  /\ call.certs[2].spki.alg = 408
  /\ call.key.alg = 1087
  /\ ret.kind = "SelfCert"
  /\ ret.tag = "RSA"
  /\ ret.certs = call.certs

====
